---- MODULE Spec2Model ----
(***************************************************************************)
(* DocumentProcessor (backend/src/agent/document_processor.py): the type   *)
(* dispatcher, the five extractors, the content analyzer and the           *)
(* top-level process_file, run as coroutines of one cooperative event      *)
(* loop.                                                                   *)
(*                                                                         *)
(* MIME strings are sequences of one-character strings, so that lower()    *)
(* and the substring tests are computed.  A language-model response is a   *)
(* sequence of tokens: the two braces, a filler character, and tokens that *)
(* each stand for the member list of a JSON object.  Texts (extracted      *)
(* content, summaries, error messages) are TLA+ strings.                   *)
(***************************************************************************)
EXTENDS Integers, Sequences, FiniteSets, TLC

VARIABLES
    loop,            \* the call running on the event-loop thread, 0 if none
    content_type,    \* per call: file_upload.content_type
    file,            \* per call: the condition of the file at file_path
    pc,              \* per call: position in process_file
    document_type,   \* per call: the local of process_file
    extracted_text,  \* per call: the local of process_file
    llm_calls,       \* per call: number of self.llm.invoke requests made
    prompt,          \* per call: the prompts given to self.llm.invoke, in order
    response,        \* per call: the outcome of self.llm.invoke
    analysis,        \* per call: what _analyze_content returned
    result           \* per call: the DocumentAnalysis returned

vars == <<loop, content_type, file, pc, document_type, extracted_text,
          llm_calls, prompt, response, analysis, result>>

----------------------------------------------------------------------------
(* Bounds *)

NumCalls == 2     \* process_file calls known to the event loop
MaxParts == 2     \* fragments concatenated into a MIME string
MaxLen == 4       \* tokens in a language-model response

Calls == 1..NumCalls

----------------------------------------------------------------------------
(* Characters and MIME strings *)

UpperCase == <<"A","B","C","D","E","F","G","H","I","J","K","L","M",
               "N","O","P","Q","R","S","T","U","V","W","X","Y","Z">>
LowerCase == <<"a","b","c","d","e","f","g","h","i","j","k","l","m",
               "n","o","p","q","r","s","t","u","v","w","x","y","z">>

\* str.lower() on one character
LowerOf ==
    [u \in { UpperCase[i] : i \in 1..Len(UpperCase) } |->
        LowerCase[CHOOSE i \in 1..Len(UpperCase) : UpperCase[i] = u]]

LowerChar(ch) == IF ch \in DOMAIN LowerOf THEN LowerOf[ch] ELSE ch

\* str.lower()
Lower(s) == [i \in 1..Len(s) |-> LowerChar(s[i])]

\* sub in s
Contains(sub, s) ==
    \E i \in 1..(Len(s) - Len(sub) + 1) : SubSeq(s, i, i + Len(sub) - 1) = sub

RECURSIVE Concat(_)
Concat(parts) ==
    IF parts = <<>> THEN <<>> ELSE Head(parts) \o Concat(Tail(parts))

\* A content_type that is not a str (a FileUpload built without validation).
NotAStr == <<"<None>">>
IsStr(ct) == ct # NotAStr

Fragments ==
    { <<"p","d","f">>, <<"P","D","F">>, <<"w","o","r","d">>,
      <<"d","o","c","x">>, <<"C","s","v">>, <<"t","e","x","t">>,
      <<"I","m","a","g","e">>, <<"/">>, <<"j","s","o","n">> }

FragmentSeqs(n) == UNION { [1..k -> Fragments] : k \in 0..n }

\* The MIME strings the dispatcher is checked on.
MimeStrings == { Concat(ps) : ps \in FragmentSeqs(MaxParts) }

\* The content types of the uploads given to process_file.
UploadTypes ==
    { Concat(<<  <<"a","p","p","/">>, <<"p","d","f">>  >>),
      Concat(<<  <<"a","p","p","/">>, <<"m","s","w","o","r","d">>  >>),
      Concat(<<  <<"T","E","X","T">>, <<"/">>, <<"c","s","v">>  >>),
      Concat(<<  <<"t","e","x","t">>, <<"/">>, <<"p","l","a","i","n">>  >>),
      Concat(<<  <<"i","m","a","g","e">>, <<"/">>, <<"p","n","g">>  >>),
      Concat(<<  <<"a","p","p","/">>, <<"z","i","p">>  >>),
      NotAStr }

----------------------------------------------------------------------------
(* 4.1 Type dispatcher *)

Types == {"PDF", "DOCX", "CSV", "TXT", "IMAGE", "UNKNOWN"}
Recognized == Types \ {"UNKNOWN"}

\* Defect variant: the text test ahead of the csv test.
TextBeforeCsv(ct) ==
    IF Contains(<<"p","d","f">>, Lower(ct)) THEN "PDF"
    ELSE IF \/ Contains(<<"w","o","r","d">>, Lower(ct))
            \/ Contains(<<"d","o","c","x">>, Lower(ct)) THEN "DOCX"
    ELSE IF Contains(<<"t","e","x","t">>, Lower(ct)) THEN "TXT"
    ELSE IF Contains(<<"c","s","v">>, Lower(ct)) THEN "CSV"
    ELSE IF Contains(<<"i","m","a","g","e">>, Lower(ct)) THEN "IMAGE"
    ELSE "UNKNOWN"

_get_document_type(ct) ==
    IF Contains(<<"p","d","f">>, Lower(ct)) THEN "PDF"
    ELSE IF \/ Contains(<<"w","o","r","d">>, Lower(ct))
            \/ Contains(<<"d","o","c","x">>, Lower(ct)) THEN "DOCX"
    ELSE IF Contains(<<"c","s","v">>, Lower(ct)) THEN "CSV"
    ELSE IF Contains(<<"t","e","x","t">>, Lower(ct)) THEN "TXT"
    ELSE IF Contains(<<"i","m","a","g","e">>, Lower(ct)) THEN "IMAGE"
    ELSE "UNKNOWN"

----------------------------------------------------------------------------
(* Calls that return or raise *)

Ret(v) == [raised |-> FALSE, value |-> v]
Raise(msg) == [raised |-> TRUE, value |-> msg]

----------------------------------------------------------------------------
(* 4.2 Extractors *)

FileStates == {"ok", "missing", "corrupt", "empty"}

\* What the parsing library (PyPDF2, python-docx, pandas, aiofiles, PIL) does
\* with the file at file_path: the text it yields, or the exception it raises.
\* An empty file is a well-formed UTF-8 text and nothing else.
LibraryRead(type, f) ==
    CASE f = "ok"      -> Ret("text of the " \o type \o " file")
      [] f = "missing" -> Raise("No such file or directory")
      [] f = "corrupt" -> Raise("file cannot be parsed")
      [] f = "empty"   -> IF type = "TXT" THEN Ret("") ELSE Raise("file is empty")

_process_pdf(f) ==
    LET r == LibraryRead("PDF", f)
    IN  IF r.raised THEN Ret("Error reading PDF: " \o r.value) ELSE Ret(r.value)

_process_docx(f) ==
    LET r == LibraryRead("DOCX", f)
    IN  IF r.raised THEN Ret("Error reading DOCX: " \o r.value) ELSE Ret(r.value)

\* Defect variant: no try/except around the read.
ProcessCsvUncaught(f) == LibraryRead("CSV", f)

_process_csv(f) ==
    LET r == LibraryRead("CSV", f)
    IN  IF r.raised THEN Ret("Error reading CSV: " \o r.value) ELSE Ret(r.value)

_process_txt(f) ==
    LET r == LibraryRead("TXT", f)
    IN  IF r.raised THEN Ret("Error reading TXT: " \o r.value) ELSE Ret(r.value)

_process_image(f) ==
    LET r == LibraryRead("IMAGE", f)
    IN  IF r.raised THEN Ret("Error processing image: " \o r.value) ELSE Ret(r.value)

\* The extractor process_file dispatches to (lines 36-45).
Extractor(type, f) ==
    CASE type = "PDF"   -> _process_pdf(f)
      [] type = "DOCX"  -> _process_docx(f)
      [] type = "CSV"   -> _process_csv(f)
      [] type = "TXT"   -> _process_txt(f)
      [] type = "IMAGE" -> _process_image(f)

\* Whether the extractor reads its file through aiofiles (awaiting a thread
\* pool) or through a blocking call made on the event-loop thread.
UsesAsyncIO(type) == type = "TXT"

----------------------------------------------------------------------------
(* 4.3 Content analyzer *)

ContentLimit == 4000

\* content[:4000]
Truncate(content) ==
    IF Len(content) <= ContentLimit THEN content
    ELSE SubSeq(content, 1, ContentLimit)

analysis_prompt(content, type) == [document_type |-> type, content |-> Truncate(content)]

\* JSON values, tagged with their JSON type.
Str(s) == [t |-> "str", v |-> <<s>>]
List(xs) == [t |-> "list", v |-> xs]

\* Response tokens.  A member token stands for the text of a JSON member list.
MemberTokens == {"FULL", "EXTRA", "NOKEY", "BADTYPE"}
Tokens == {"{", "}", "x"} \cup MemberTokens

Members(tok) ==
    CASE tok = "FULL" ->
           [summary |-> Str("model summary"),
            key_insights |-> List(<<"model insight 1", "model insight 2">>),
            questions_answered |-> List(<<"model question">>)]
      [] tok = "EXTRA" ->
           [summary |-> Str("another summary"),
            key_insights |-> List(<<"another insight">>),
            questions_answered |-> List(<<>>),
            confidence |-> Str("high")]
      [] tok = "NOKEY" ->
           [summary |-> Str("model summary"),
            key_insights |-> List(<<"model insight 1">>)]
      [] tok = "BADTYPE" ->
           [summary |-> List(<<"model", "summary">>),
            key_insights |-> Str("model insight"),
            questions_answered |-> List(<<"model question">>)]

EmptyObject == [k \in {} |-> Str("")]

\* json.loads on a token sequence: an object is "{", at most one member list, "}".
JsonLoads(s) ==
    IF s = <<"{", "}">> THEN Ret(EmptyObject)
    ELSE IF Len(s) = 3 /\ s[1] = "{" /\ s[3] = "}" /\ s[2] \in MemberTokens
         THEN Ret(Members(s[2]))
         ELSE Raise("JSONDecodeError")

\* str.find and str.rfind: a 0-based index, or -1.
Find(s, ch) ==
    IF \E i \in 1..Len(s) : s[i] = ch
    THEN (CHOOSE i \in 1..Len(s) : s[i] = ch /\ \A j \in 1..(i-1) : s[j] # ch) - 1
    ELSE -1

RFind(s, ch) ==
    IF \E i \in 1..Len(s) : s[i] = ch
    THEN (CHOOSE i \in 1..Len(s) : s[i] = ch /\ \A j \in (i+1)..Len(s) : s[j] # ch) - 1
    ELSE -1

\* Defect variant: the slice stops before the closing brace.
SliceExclusive(s, a, b) == SubSeq(s, a + 1, b - 1)

\* s[a:b] for a, b >= 0
Slice(s, a, b) == SubSeq(s, a + 1, IF b < Len(s) THEN b ELSE Len(s))

\* Outcomes of self.llm.invoke: it raises, or returns a response whose content
\* is the text given, or is not a str.
LLMRaises == [kind |-> "raise", text |-> <<>>]
LLMNonStr == [kind |-> "nonstr", text |-> <<>>]
LLMText(s) == [kind |-> "text", text |-> s]
NoResponse == [kind |-> "none", text |-> <<>>]

Responses(n) == UNION { [1..k -> Tokens] : k \in 0..n }
LLMOutcomes == {LLMRaises, LLMNonStr} \cup { LLMText(s) : s \in Responses(MaxLen) }

\* The else branch of line 186.
DelimiterFallback ==
    [summary |-> Str("Document analysis completed"),
     key_insights |-> List(<<"Content extracted successfully">>),
     questions_answered |-> List(<<"General questions about document content">>)]

\* The except branch of line 196.
ExceptFallback(type) ==
    [summary |-> Str("Analysis completed for " \o type \o " document"),
     key_insights |-> List(<<"Document processed successfully", "Content extracted">>),
     questions_answered |-> List(<<"What is the main topic?", "What are the key points?">>)]

\* Defect variant: a missing "}" is detected and takes the else branch.
ParseResponseChecksClose(response_text, type) ==
    LET start_idx == Find(response_text, "{")
        end_idx == RFind(response_text, "}")
    IN  IF start_idx # -1 /\ end_idx # -1
        THEN LET parsed == JsonLoads(Slice(response_text, start_idx, end_idx + 1))
             IN  IF parsed.raised THEN ExceptFallback(type) ELSE parsed.value
        ELSE DelimiterFallback

\* Lines 179-194, given a response whose content is the text.
ParseResponse(response_text, type) ==
    LET start_idx == Find(response_text, "{")
        end_idx == RFind(response_text, "}") + 1
    IN  IF start_idx # -1 /\ end_idx # -1
        THEN LET json_str == Slice(response_text, start_idx, end_idx)
                 parsed == JsonLoads(json_str)
             IN  IF parsed.raised THEN ExceptFallback(type) ELSE parsed.value
        ELSE DelimiterFallback

_analyze_content(out, type) ==
    IF out.kind = "raise" THEN Ret(ExceptFallback(type))
    ELSE IF out.kind = "nonstr" THEN Ret(ExceptFallback(type))
    ELSE Ret(ParseResponse(out.text, type))

----------------------------------------------------------------------------
(* 4.4 process_file *)

\* document_type before line 34 has assigned it.
Unbound == "<unbound>"

\* Defect variant: the summary leaves the exception's message out.
ErrorAnalysisNoMessage(type, msg) ==
    [document_type |-> type,
     summary |-> "Error processing document",
     key_insights |-> <<"Document processing failed">>,
     questions_answered |-> <<"Unable to analyze due to processing error">>]

\* DocumentAnalysis(...) of lines 61-66.
ErrorAnalysis(type, msg) ==
    [document_type |-> type,
     summary |-> "Error processing document: " \o msg,
     key_insights |-> <<"Document processing failed">>,
     questions_answered |-> <<"Unable to analyze due to processing error">>]

\* Defect variant: the failure record is always tagged UNKNOWN.
HandlerAlwaysUnknown(type, msg) ==
    [raised |-> FALSE,
     value |-> [document_type |-> "UNKNOWN",
                summary |-> "Error processing document: " \o msg,
                key_insights |-> <<"Document processing failed">>,
                questions_answered |-> <<"Unable to analyze due to processing error">>]]

\* The except clause of lines 59-66, entered with exception message msg.
\* Reading an unbound local raises UnboundLocalError out of the handler.
Handler(type, msg) ==
    IF type = Unbound THEN Raise("UnboundLocalError: document_type")
    ELSE Ret(ErrorAnalysis(IF type # "" THEN type ELSE "UNKNOWN", msg))

\* The field types DocumentAnalysis declares (tools_and_schemas.py).
Validates(a) ==
    /\ a["summary"].t = "str"
    /\ a["key_insights"].t = "list"
    /\ a["questions_answered"].t = "list"

\* Lines 52-57: the subscripts, then the validating constructor.
Assemble(type, a) ==
    IF "summary" \notin DOMAIN a THEN Raise("'summary'")
    ELSE IF "key_insights" \notin DOMAIN a THEN Raise("'key_insights'")
    ELSE IF "questions_answered" \notin DOMAIN a THEN Raise("'questions_answered'")
    ELSE IF ~Validates(a) THEN Raise("validation error for DocumentAnalysis")
    ELSE Ret([document_type |-> type,
              summary |-> a["summary"].v[1],
              key_insights |-> a["key_insights"].v,
              questions_answered |-> a["questions_answered"].v])

\* process_file ends: it returns r.value, or raises.  Either way the event
\* loop is free again.
Finish(c, r) ==
    /\ pc' = [pc EXCEPT ![c] = IF r.raised THEN "raised" ELSE "done"]
    /\ result' = [result EXCEPT ![c] = IF r.raised THEN {} ELSE {r.value}]
    /\ loop' = 0

\* The event loop runs the coroutine up to the try (lines 28-33).
Start(c) ==
    /\ pc[c] = "pending"
    /\ loop = 0
    /\ loop' = c
    /\ pc' = [pc EXCEPT ![c] = "started"]
    /\ UNCHANGED <<content_type, file, document_type, extracted_text,
                   llm_calls, prompt, response, analysis, result>>

\* Line 34.  content_type.lower() raises for a content_type that is no str.
Classify(c) ==
    /\ pc[c] = "started"
    /\ loop = c
    /\ IF IsStr(content_type[c])
       THEN /\ document_type' =
                 [document_type EXCEPT ![c] = _get_document_type(content_type[c])]
            /\ pc' = [pc EXCEPT ![c] = "classified"]
            /\ UNCHANGED <<loop, result>>
       ELSE /\ Finish(c, Handler(document_type[c], "'NoneType' object has no attribute 'lower'"))
            /\ UNCHANGED document_type
    /\ UNCHANGED <<content_type, file, extracted_text, llm_calls, prompt,
                   response, analysis>>

\* Defect variant: an UNKNOWN type is not refused and goes on to the analyzer
\* with the empty text.
DispatchUnknownAnalyzed(c) ==
    /\ pc[c] = "classified"
    /\ loop = c
    /\ IF document_type[c] \in Recognized
       THEN /\ pc' = [pc EXCEPT ![c] = "reading"]
            /\ loop' = IF UsesAsyncIO(document_type[c]) THEN 0 ELSE c
       ELSE /\ pc' = [pc EXCEPT ![c] = "extracted"]
            /\ UNCHANGED loop
    /\ UNCHANGED <<content_type, file, document_type, extracted_text,
                   llm_calls, prompt, response, analysis, result>>

\* Lines 36-47: the extractor is entered and starts to read, or ValueError.
\* A read through aiofiles suspends the coroutine; any other read keeps the
\* event-loop thread.
Dispatch(c) ==
    /\ pc[c] = "classified"
    /\ loop = c
    /\ IF document_type[c] \in Recognized
       THEN /\ pc' = [pc EXCEPT ![c] = "reading"]
            /\ loop' = IF UsesAsyncIO(document_type[c]) THEN 0 ELSE c
            /\ UNCHANGED result
       ELSE Finish(c, Handler(document_type[c],
                              "Unsupported document type: " \o document_type[c]))
    /\ UNCHANGED <<content_type, file, document_type, extracted_text,
                   llm_calls, prompt, response, analysis>>

\* The extractor returns (or raises into the handler of process_file).  A
\* suspended coroutine resumes when the event loop is free.
Extract(c) ==
    /\ pc[c] = "reading"
    /\ loop = IF UsesAsyncIO(document_type[c]) THEN 0 ELSE c
    /\ LET r == Extractor(document_type[c], file[c])
       IN  IF r.raised
           THEN /\ Finish(c, Handler(document_type[c], r.value))
                /\ UNCHANGED extracted_text
           ELSE /\ extracted_text' = [extracted_text EXCEPT ![c] = r.value]
                /\ pc' = [pc EXCEPT ![c] = "extracted"]
                /\ loop' = c
                /\ UNCHANGED result
    /\ UNCHANGED <<content_type, file, document_type, llm_calls, prompt,
                   response, analysis>>

\* Lines 50, 153-172: the prompt is built and self.llm.invoke is entered.
Request(c) ==
    /\ pc[c] = "extracted"
    /\ loop = c
    /\ prompt' = [prompt EXCEPT
                    ![c] = Append(@, analysis_prompt(extracted_text[c], document_type[c]))]
    /\ llm_calls' = [llm_calls EXCEPT ![c] = @ + 1]
    /\ pc' = [pc EXCEPT ![c] = "requesting"]
    /\ UNCHANGED <<loop, content_type, file, document_type, extracted_text,
                   response, analysis, result>>

\* Lines 172-202: self.llm.invoke ends and _analyze_content returns (or
\* raises into the handler of process_file).
Analyze(c, outs) ==
    /\ pc[c] = "requesting"
    /\ loop = c
    /\ \E out \in outs :
         LET r == _analyze_content(out, document_type[c])
         IN  /\ response' = [response EXCEPT ![c] = out]
             /\ IF r.raised
                THEN /\ Finish(c, Handler(document_type[c], r.value))
                     /\ UNCHANGED analysis
                ELSE /\ analysis' = [analysis EXCEPT ![c] = {r.value}]
                     /\ pc' = [pc EXCEPT ![c] = "analyzed"]
                     /\ UNCHANGED <<loop, result>>
    /\ UNCHANGED <<content_type, file, document_type, extracted_text,
                   llm_calls, prompt>>

\* Lines 52-66: the DocumentAnalysis is built and returned, or the handler's.
Return(c) ==
    /\ pc[c] = "analyzed"
    /\ loop = c
    /\ LET a == CHOOSE x \in analysis[c] : TRUE
           r == Assemble(document_type[c], a)
       IN  Finish(c, IF r.raised THEN Handler(document_type[c], r.value) ELSE r)
    /\ UNCHANGED <<content_type, file, document_type, extracted_text,
                   llm_calls, prompt, response, analysis>>

\* outs: the outcomes the hosted model behind self.llm may produce.
Step(c, outs) ==
    \/ Start(c)
    \/ Classify(c)
    \/ Dispatch(c)
    \/ Extract(c)
    \/ Request(c)
    \/ Analyze(c, outs)
    \/ Return(c)

Next == \E c \in Calls : Step(c, LLMOutcomes)

----------------------------------------------------------------------------
(* Specifications *)

\* The locals of a call that has not run yet.
Fresh ==
    /\ loop = 0
    /\ document_type = [c \in Calls |-> Unbound]
    /\ extracted_text = [c \in Calls |-> ""]
    /\ llm_calls = [c \in Calls |-> 0]
    /\ prompt = [c \in Calls |-> <<>>]
    /\ response = [c \in Calls |-> NoResponse]
    /\ analysis = [c \in Calls |-> {}]
    /\ result = [c \in Calls |-> {}]

\* One call in flight, any upload, any model outcome.  Calls share no state,
\* so what one call returns is decided by that call alone.
Init ==
    /\ \E ct \in UploadTypes :
         content_type = [c \in Calls |-> IF c = 1 THEN ct ELSE NotAStr]
    /\ \E f \in FileStates :
         file = [c \in Calls |-> IF c = 1 THEN f ELSE "ok"]
    /\ pc = [c \in Calls |-> IF c = 1 THEN "pending" ELSE "idle"]
    /\ Fresh

Spec == Init /\ [][Next]_vars

\* The dispatcher alone, on every MIME string built of the fragments.
InitDispatch ==
    /\ \E ct \in MimeStrings :
         content_type = [c \in Calls |-> IF c = 1 THEN ct ELSE <<>>]
    /\ file = [c \in Calls |-> "ok"]
    /\ pc = [c \in Calls |-> IF c = 1 THEN "pending" ELSE "idle"]
    /\ Fresh

NextDispatch == Start(1) \/ Classify(1)

SpecDispatch == InitDispatch /\ [][NextDispatch]_vars

\* Every call in flight on the one event loop.
LoopTypes ==
    { Concat(<<  <<"a","p","p","/">>, <<"p","d","f">>  >>),
      Concat(<<  <<"t","e","x","t">>, <<"/">>, <<"p","l","a","i","n">>  >>),
      Concat(<<  <<"i","m","a","g","e">>, <<"/">>, <<"p","n","g">>  >>),
      Concat(<<  <<"a","p","p","/">>, <<"z","i","p">>  >>) }

LoopOutcomes == {LLMRaises, LLMText(<<"{", "FULL", "}">>)}

InitLoop ==
    /\ content_type \in [Calls -> LoopTypes]
    /\ file \in [Calls -> {"ok", "missing"}]
    /\ pc = [c \in Calls |-> "pending"]
    /\ Fresh

NextLoop == \E c \in Calls : Step(c, LoopOutcomes)

SpecLoop == InitLoop /\ [][NextLoop]_vars

----------------------------------------------------------------------------
(* Vocabulary of the properties *)

The(S) == CHOOSE x \in S : TRUE
Range(s) == { s[i] : i \in 1..Len(s) }

Ended(c) == pc[c] \in {"done", "raised"}
Fields == {"document_type", "summary", "key_insights", "questions_answered"}
Keys == {"summary", "key_insights", "questions_answered"}

\* kw occurs in ct, letter case ignored.
OccursIn(kw, ct) ==
    \E i \in 0..(Len(ct) - Len(kw)) :
        \A j \in 1..Len(kw) : LowerChar(ct[i + j]) = kw[j]

\* The dispatcher's table of section 4.1, in priority order.
Rules ==
    << [kw |-> { <<"p","d","f">> }, tag |-> "PDF"],
       [kw |-> { <<"w","o","r","d">>, <<"d","o","c","x">> }, tag |-> "DOCX"],
       [kw |-> { <<"c","s","v">> }, tag |-> "CSV"],
       [kw |-> { <<"t","e","x","t">> }, tag |-> "TXT"],
       [kw |-> { <<"i","m","a","g","e">> }, tag |-> "IMAGE"] >>

Matching(ct) == { i \in 1..Len(Rules) : \E k \in Rules[i].kw : OccursIn(k, ct) }

FirstMatch(ct) ==
    LET m == Matching(ct)
    IN  IF m = {} THEN "UNKNOWN"
        ELSE Rules[CHOOSE i \in m : \A j \in m : i <= j].tag

\* The text holds a valid JSON object between its first "{" and its last "}".
ObjectSpans(text) ==
    { <<i, j>> \in (1..Len(text)) \X (1..Len(text)) :
        /\ text[i] = "{" /\ \A k \in 1..(i - 1) : text[k] # "{"
        /\ text[j] = "}" /\ \A k \in (j + 1)..Len(text) : text[k] # "}"
        /\ i < j
        /\ ~JsonLoads(SubSeq(text, i, j)).raised }

ObjectIn(text) == JsonLoads(SubSeq(text, The(ObjectSpans(text))[1],
                                         The(ObjectSpans(text))[2])).value

\* The file of call c cannot be read or parsed as its type.
ReadFails(c) == LibraryRead(document_type[c], file[c]).raised

ErrorPrefix(type) ==
    CASE type = "PDF"   -> "Error reading PDF: "
      [] type = "DOCX"  -> "Error reading DOCX: "
      [] type = "CSV"   -> "Error reading CSV: "
      [] type = "TXT"   -> "Error reading TXT: "
      [] type = "IMAGE" -> "Error processing image: "

\* The record of the top-level failure path.
FailureRecord(r) ==
    /\ r.key_insights = <<"Document processing failed">>
    /\ r.questions_answered = <<"Unable to analyze due to processing error">>

----------------------------------------------------------------------------
(* Properties *)

\* C1: process_file never raises: every call that ends has returned a
\* DocumentAnalysis holding all four fields, whatever the upload and whatever
\* the language model did.
C1_NeverRaises ==
    \A c \in Calls :
        Ended(c) => /\ pc[c] = "done"
                    /\ \E r \in result[c] : DOMAIN r = Fields

\* C2 (as stated): whenever the response lacks "{", or lacks "}", or the
\* call/parse path raises, _analyze_content returns the one fallback record
\* whose summary names the document type.
C2_OneFallback ==
    \A c \in Calls :
        (/\ response[c] # NoResponse
         /\ \/ response[c].kind # "text"
            \/ "{" \notin Range(response[c].text)
            \/ "}" \notin Range(response[c].text)
            \/ ObjectSpans(response[c].text) = {})
        => analysis[c] = {ExceptFallback(document_type[c])}

\* C2 (amended): _analyze_content never raises; a response with no "{" gives
\* the fixed record of the else branch, which does not name the document
\* type; a failed request, or a response with a "{" and no object from the
\* first "{" to the last "}" (no "}" included), gives the fixed record of the
\* except branch, which names the document type.
C2_TwoFallbacks ==
    \A c \in Calls :
        response[c] # NoResponse =>
            /\ analysis[c] # {}
            /\ pc[c] # "raised"
            /\ (response[c].kind = "text" /\ "{" \notin Range(response[c].text))
                   => analysis[c] = {DelimiterFallback}
            /\ (\/ response[c].kind # "text"
                \/ /\ "{" \in Range(response[c].text)
                   /\ ObjectSpans(response[c].text) = {})
                   => analysis[c] = {ExceptFallback(document_type[c])}

C2_Witness ==
    \E c \in Calls :
        /\ response[c].kind = "text"
        /\ "{" \in Range(response[c].text)
        /\ "}" \notin Range(response[c].text)
        /\ analysis[c] = {ExceptFallback(document_type[c])}

\* C3: a response holding a valid JSON object with the three keys between its
\* first "{" and its last "}" makes _analyze_content return that object's
\* values for the three fields, whatever surrounds the object.
C3_ParsedObjectReturned ==
    \A c \in Calls :
        (/\ response[c].kind = "text"
         /\ ObjectSpans(response[c].text) # {}
         /\ Keys \subseteq DOMAIN ObjectIn(response[c].text))
        => /\ analysis[c] # {}
           /\ \A k \in Keys : The(analysis[c])[k] = ObjectIn(response[c].text)[k]

C3_Witness ==
    \E c \in Calls :
        /\ response[c].kind = "text"
        /\ Len(response[c].text) = 4
        /\ response[c].text[1] = "x"
        /\ ObjectSpans(response[c].text) # {}
        /\ analysis[c] = {Members("EXTRA")}

\* C4: a content type matching none of the six substrings is classified
\* UNKNOWN, and process_file returns the failure record tagged UNKNOWN whose
\* summary embeds the ValueError's message.
C4_UnknownType ==
    \A c \in Calls :
        (IsStr(content_type[c]) /\ Matching(content_type[c]) = {}) =>
            /\ pc[c] \notin {"idle", "pending", "started"} => document_type[c] = "UNKNOWN"
            /\ pc[c] \notin {"reading", "extracted", "requesting", "analyzed", "raised"}
            /\ Ended(c) =>
                 result[c] =
                   {[document_type |-> "UNKNOWN",
                     summary |-> "Error processing document: Unsupported document type: UNKNOWN",
                     key_insights |-> <<"Document processing failed">>,
                     questions_answered |-> <<"Unable to analyze due to processing error">>]}

C4_Witness ==
    \E c \in Calls :
        /\ IsStr(content_type[c]) /\ Matching(content_type[c]) = {}
        /\ pc[c] = "done"
        /\ llm_calls[c] = 0

\* C5: _get_document_type returns, for every MIME string, the tag of the
\* first rule that matches in the order pdf, word/docx, csv, text, image, and
\* UNKNOWN when none does; text with csv is CSV, text with image is TXT.
C5_FirstMatchWins ==
    \A c \in Calls :
        pc[c] \notin {"idle", "pending", "started"} =>
            /\ pc[c] = "classified"
            /\ document_type[c] = FirstMatch(content_type[c])
            /\ ({3, 4} \subseteq Matching(content_type[c])
                  /\ 1 \notin Matching(content_type[c])
                  /\ 2 \notin Matching(content_type[c])) => document_type[c] = "CSV"
            /\ ({4, 5} \subseteq Matching(content_type[c])
                  /\ Matching(content_type[c]) \cap {1, 2, 3} = {}) => document_type[c] = "TXT"

C5_Witness ==
    \E c \in Calls :
        /\ pc[c] = "classified"
        /\ OccursIn(<<"t","e","x","t">>, content_type[c])
        /\ OccursIn(<<"c","s","v">>, content_type[c])
        /\ content_type[c] # Lower(content_type[c])
        /\ document_type[c] = "CSV"

\* C6: every DocumentAnalysis process_file returns, on the success path and
\* on every failure path, carries one of the six tags, the one the dispatcher
\* gives the upload's content type.
C6_TagIsClassification ==
    \A c \in Calls :
        \A r \in result[c] :
            /\ r.document_type \in Types
            /\ r.document_type = FirstMatch(content_type[c])

C6_Witness ==
    \E c \in Calls :
        /\ pc[c] = "done"
        /\ response[c] = LLMText(<<"{", "NOKEY", "}">>)
        /\ \E r \in result[c] : FailureRecord(r) /\ r.document_type = "PDF"

\* C7: on its top-level failure path process_file returns a record tagged
\* with the type classified before the failure, or UNKNOWN when the failure
\* came before classification completed; it does not raise.
C7_FailureBeforeClassification ==
    \A c \in Calls :
        (Ended(c) /\ (pc[c] = "raised" \/ \E r \in result[c] : FailureRecord(r))) =>
            \E r \in result[c] :
                /\ FailureRecord(r)
                /\ r.document_type =
                     IF document_type[c] = Unbound THEN "UNKNOWN" ELSE document_type[c]

\* C8: an extractor never raises; a file that cannot be read gives an error
\* string, which is the content handed to the analyzer, and by itself never
\* leads to the top-level failure record: the result carries the classified
\* type and, when the analysis is usable, the analysis.
C8_ExtractionFailureAbsorbed ==
    \A c \in Calls :
        (document_type[c] \in Recognized /\ ReadFails(c)
           /\ pc[c] \notin {"classified", "reading"}) =>
            /\ pc[c] # "raised"
            /\ extracted_text[c] =
                 ErrorPrefix(document_type[c]) \o LibraryRead(document_type[c], file[c]).value
            /\ pc[c] # "extracted" =>
                 prompt[c] = <<[document_type |-> document_type[c],
                                content |-> extracted_text[c]]>>
            /\ pc[c] = "done" =>
                 /\ analysis[c] # {}
                 /\ \E r \in result[c] : r.document_type = document_type[c]
                 /\ (~Assemble(document_type[c], The(analysis[c])).raised) =>
                      \E r \in result[c] :
                          /\ ~FailureRecord(r)
                          /\ r.summary = The(analysis[c])["summary"].v[1]

C8_Witness ==
    \E c \in Calls :
        /\ pc[c] = "done"
        /\ file[c] = "missing"
        /\ document_type[c] = "CSV"
        /\ extracted_text[c] = "Error reading CSV: No such file or directory"
        /\ \E r \in result[c] : r.summary = "model summary" /\ r.document_type = "CSV"

\* C9: one call requests the language model at most once, only after
\* classification and extraction, exactly once when the type is recognized
\* (also when extraction gave an error string), never when it is UNKNOWN.
C9_OneRequestInOrder ==
    \A c \in Calls :
        /\ llm_calls[c] <= 1
        /\ Len(prompt[c]) = llm_calls[c]
        /\ pc[c] \in {"idle", "pending", "started", "classified", "reading", "extracted"}
             => llm_calls[c] = 0
        /\ pc[c] \in {"requesting", "analyzed"} => llm_calls[c] = 1
        /\ llm_calls[c] = 1 =>
             /\ document_type[c] \in Recognized
             /\ prompt[c][1].content = Extractor(document_type[c], file[c]).value
        /\ Ended(c) =>
             llm_calls[c] = IF document_type[c] \in Recognized THEN 1 ELSE 0

C9_Witness ==
    \E c \in Calls :
        /\ pc[c] = "done"
        /\ ReadFails(c)
        /\ response[c] = LLMRaises
        /\ llm_calls[c] = 1

\* C10: a call that is reading its file, of whichever type, leaves every
\* other unfinished call able to take a step; a call that waits on I/O and
\* keeps another from stepping is waiting on the language model.
C10_ReadsDoNotBlock ==
    \A c \in Calls : \A d \in Calls \ {c} :
        (pc[c] \in {"reading", "requesting"} /\ ~Ended(d)
           /\ ~ENABLED Step(d, LoopOutcomes))
        => pc[c] = "requesting"

====
